---- MODULE Spec2Model ----
(***************************************************************************)
(* Conductivity model of resistive-casing.ipynb: the casing parameters,    *)
(* the conductivity field put on the mesh (sigma = model.sigma(mesh)) and  *)
(* create_gaps_model, which copies that field and overwrites the casing    *)
(* cells inside the gaps.                                                  *)
(*                                                                         *)
(* Units: radii in millimetres, depths z in metres (positive up).  A       *)
(* conductivity m * 10^e S/m is the pair <<m, e>>, so 1e-8 is <<1, -8>>.   *)
(* numpy arrays are objects: heap is the sequence of allocated arrays and  *)
(* the notebook's names (sigma, sigma_gaps, model_dict) hold references    *)
(* into it; 0 is an unbound name.                                          *)
(***************************************************************************)
EXTENDS Integers, Sequences, FiniteSets, TLC

VARIABLES pc, mesh, heap, sigma, gaps, sigma_gap, sigma_gaps, raised, model_dict,
          casing_params, exc, src_z, mesh_faces, source_term_z, source_term

vars == <<pc, mesh, heap, sigma, gaps, sigma_gap, sigma_gaps, raised, model_dict,
          casing_params, exc, src_z, mesh_faces, source_term_z, source_term>>

\* the names of the source cells
srcvars == <<src_z, mesh_faces, source_term_z, source_term>>

\* ---------------------------------------------------------------- bounds
MaxGaps == 2

\* ------------------------------------------------ parameters (cell 89-98)
sigma_air == <<1, -8>>
sigma_back == <<1, -2>>
sigma_casing == <<1, -10>>
sigma_inside == <<1, 0>>

casing_diameter == 100
casing_t == 10
casing_l == 1000

\* the parameter cell may be edited before the notebook is run: the values
\* of casing_t tried besides the notebook's own
CasingTInputs == {casing_t, 0, -10, 50, 60}

GeometryInputs ==
    {[casing_diameter |-> casing_diameter, casing_t |-> t] : t \in CasingTInputs}

\* casing_d passed to CasingInHalfspace: diameter to the centre of the wall
casing_d == casing_params.casing_diameter - casing_params.casing_t

\* CasingGeometry of the specification: inner and outer radius, depth range
casing_inner_radius == (casing_d - casing_params.casing_t) \div 2
casing_outer_radius == (casing_d + casing_params.casing_t) \div 2
casing_top_z == 0
casing_bottom_z == 0 - casing_l

\* ------------------------------------------------------------- the mesh
\* cell centres of a tensor mesh, radial index running fastest
gridCC(rs, zs) ==
    [k \in 1..(Len(rs) * Len(zs)) |->
        [r |-> rs[((k - 1) % Len(rs)) + 1], z |-> zs[((k - 1) \div Len(rs)) + 1]]]

RadialCentres == <<0, 20, 40, 45, 50, 60>>
DepthCentres == <<5, 0, -802, -850, -902, -1000, -1005>>

Meshes ==
    { gridCC(RadialCentres, DepthCentres),
      gridCC(<<45, 20>>, <<-850, -802, 5>>),
      gridCC(<<45>>, <<-802>>),
      gridCC(<<>>, <<>>) }

\* variant: equal radii accepted
InvalidGeometry_strict == casing_outer_radius < casing_inner_radius

\* construction of the casing geometry fails when the outer radius does not
\* exceed the inner one
InvalidGeometry == casing_outer_radius <= casing_inner_radius

\* ------------------------------------------------- region classification
Regions == {"Air", "CasingWall", "CasingInterior", "Background"}

\* variant: the surface itself counted as air
ind_air_incl(p) == p.z >= 0

ind_air(p) == p.z > 0

\* variant: the wall mask without its upper depth limit
ind_casing_notop(p) ==
    /\ casing_inner_radius <= p.r /\ p.r < casing_outer_radius
    /\ casing_bottom_z <= p.z

ind_casing(p) ==
    /\ casing_inner_radius <= p.r /\ p.r < casing_outer_radius
    /\ casing_bottom_z <= p.z /\ p.z <= casing_top_z

\* variant: the inner radius counted as interior
ind_inside_incl(p) ==
    /\ p.r <= casing_inner_radius
    /\ casing_bottom_z <= p.z /\ p.z <= casing_top_z

ind_inside(p) ==
    /\ p.r < casing_inner_radius
    /\ casing_bottom_z <= p.z /\ p.z <= casing_top_z

ind_back(p) == ~ind_air(p) /\ ~ind_casing(p) /\ ~ind_inside(p)

InRegion(reg, p) ==
    CASE reg = "Air" -> ind_air(p)
      [] reg = "CasingWall" -> ind_casing(p)
      [] reg = "CasingInterior" -> ind_inside(p)
      [] reg = "Background" -> ind_back(p)

\* the regions whose condition the point satisfies
regions_of(p) == {reg \in Regions : InRegion(reg, p)}

region_of(p) ==
    IF ind_air(p) THEN "Air"
    ELSE IF ind_casing(p) THEN "CasingWall"
    ELSE IF ind_inside(p) THEN "CasingInterior"
    ELSE "Background"

conductivity(p) ==
    CASE region_of(p) = "Air" -> sigma_air
      [] region_of(p) = "CasingWall" -> sigma_casing
      [] region_of(p) = "CasingInterior" -> sigma_inside
      [] region_of(p) = "Background" -> sigma_back

\* ------------------------------------------------------ array primitives
Full(pts, value) == [k \in 1..Len(pts) |-> value]

\* variant: the write lands one index after the masked one
MaskAssign_shifted(arr, mask, value) ==
    [k \in 1..Len(arr) |-> IF k > 1 /\ mask[k - 1] THEN value ELSE arr[k]]

\* arr[mask] = value
MaskAssign(arr, mask, value) ==
    [k \in 1..Len(arr) |-> IF mask[k] THEN value ELSE arr[k]]

\* sigma = model.sigma(mesh): background everywhere, then the masks of the
\* air, the casing wall and the casing interior are written in turn
build_field(pts) ==
    LET s0 == Full(pts, sigma_back)
        s1 == MaskAssign(s0, [k \in 1..Len(pts) |-> ind_air(pts[k])], sigma_air)
        s2 == MaskAssign(s1, [k \in 1..Len(pts) |-> ind_casing(pts[k])], sigma_casing)
    IN  MaskAssign(s2, [k \in 1..Len(pts) |-> ind_inside(pts[k])], sigma_inside)

\* variant: no copy, the name is bound to the same array
ndarray_copy_alias(h, ref) == [heap |-> h, ref |-> ref]

\* variant: a fresh array of the background value instead of a copy
ndarray_copy_fresh(h, ref) ==
    [heap |-> Append(h, Full(h[ref], sigma_back)), ref |-> Len(h) + 1]

\* sigma.copy(): a fresh array with the same elements
ndarray_copy(h, ref) == [heap |-> Append(h, h[ref]), ref |-> Len(h) + 1]

\* ------------------------------------------------------ create_gaps_model
RECURSIVE SeqMax(_), SeqMin(_), Flatten(_)
SeqMax(s) ==
    IF Len(s) = 1 THEN s[1]
    ELSE LET m == SeqMax(Tail(s)) IN IF s[1] >= m THEN s[1] ELSE m

SeqMin(s) ==
    IF Len(s) = 1 THEN s[1]
    ELSE LET m == SeqMin(Tail(s)) IN IF s[1] <= m THEN s[1] ELSE m

Flatten(ss) == IF ss = <<>> THEN <<>> ELSE Head(ss) \o Flatten(Tail(ss))

\* np.array(gs) is a rectangular numeric array only if the rows agree in
\* length; a ragged list is rejected by np.array (numpy 1.24 and later).
\* Older numpy builds an object array of tuples instead; the call then fails
\* in the comparison with the cell depths or, at the latest, at the length
\* check of the element that is not a pair, so it raises in every build.
Rectangular(gs) == \A i, j \in 1..Len(gs) : Len(gs[i]) = Len(gs[j])

RECURSIVE Column(_, _)
Column(gs, c) == IF gs = <<>> THEN <<>> ELSE <<Head(gs)[c]>> \o Column(Tail(gs), c)

\* variant: the lower bound read from the first entry of each pair
gap_min_first(gs) == SeqMin(Column(gs, 1))

\* gap = np.array(gaps); gap.max(), gap.min(): over every entry of the list
gap_max(gs) == SeqMax(Flatten(gs))
gap_min(gs) == SeqMin(Flatten(gs))

\* variant: open interval
indices_gap_open(pts, gs) ==
    [k \in 1..Len(pts) |->
        /\ ind_casing(pts[k])
        /\ pts[k].z < gap_max(gs)
        /\ pts[k].z > gap_min(gs)]

\* variant: the depth test alone, without the casing mask
indices_gap_anywhere(pts, gs) ==
    [k \in 1..Len(pts) |->
        /\ pts[k].z <= gap_max(gs)
        /\ pts[k].z >= gap_min(gs)]

\* indices_gap: casing cells whose depth is within [gap.min(), gap.max()]
indices_gap(pts, gs) ==
    [k \in 1..Len(pts) |->
        /\ ind_casing(pts[k])
        /\ pts[k].z <= gap_max(gs)
        /\ pts[k].z >= gap_min(gs)]

\* variant: a mask longer than the array is accepted
MaskFits_longer(arr, mask) == Len(mask) >= Len(arr)

\* arr[mask] = value needs a boolean mask of the array's length (IndexError)
MaskFits(arr, mask) == Len(mask) = Len(arr)

\* variant: an element that is not a pair is skipped instead of rejected
RECURSIVE gaps_loop_skip(_, _, _, _, _, _)
gaps_loop_skip(h, ref, i, gs, sg, pts) ==
    IF i > Len(gs) THEN [heap |-> h, raised |-> FALSE, exc |-> "none"]
    ELSE IF Len(gs[i]) # 2 THEN gaps_loop_skip(h, ref, i + 1, gs, sg, pts)
    ELSE IF ~Rectangular(gs) THEN [heap |-> h, raised |-> TRUE, exc |-> "ValueError"]
    ELSE IF ~MaskFits(h[ref], indices_gap(pts, gs))
         THEN [heap |-> h, raised |-> TRUE, exc |-> "IndexError"]
    ELSE gaps_loop_skip([h EXCEPT ![ref] = MaskAssign(h[ref], indices_gap(pts, gs), sg)],
                        ref, i + 1, gs, sg, pts)

\* the for loop over gaps, from its i-th element, writing into heap[ref]
RECURSIVE gaps_loop(_, _, _, _, _, _)
gaps_loop(h, ref, i, gs, sg, pts) ==
    IF i > Len(gs) THEN [heap |-> h, raised |-> FALSE, exc |-> "none"]
    ELSE IF Len(gs[i]) # 2 THEN [heap |-> h, raised |-> TRUE, exc |-> "Exception"]
    ELSE IF ~Rectangular(gs) THEN [heap |-> h, raised |-> TRUE, exc |-> "ValueError"]
    ELSE IF ~MaskFits(h[ref], indices_gap(pts, gs))
         THEN [heap |-> h, raised |-> TRUE, exc |-> "IndexError"]
    ELSE gaps_loop([h EXCEPT ![ref] = MaskAssign(h[ref], indices_gap(pts, gs), sg)],
                   ref, i + 1, gs, sg, pts)

\* the call: the heap after it, whether it raised, the reference returned
create_gaps_model(h, base, gs, sg, pts) ==
    LET c == ndarray_copy(h, base)
        l == gaps_loop(c.heap, c.ref, 1, gs, sg, pts)
    IN  IF l.raised
        THEN [heap |-> SubSeq(l.heap, 1, Len(h)), raised |-> TRUE, ret |-> 0,
              exc |-> l.exc]
        ELSE [heap |-> l.heap, raised |-> FALSE, ret |-> c.ref, exc |-> l.exc]

\* ------------------------------------------------------------ the inputs
SigmaTwo == <<2, 0>>

GapInputs ==
    { <<-800, -805>>, <<-805, -800>>, <<-900, -905>>, <<-810, -795>>,
      <<-795, -810>>, <<-850, -850>>, <<0, -1000>>,
      <<-810, -795, sigma_inside>>, <<-805, -800, SigmaTwo>>, <<-800>> }

SigmaGapInputs == {sigma_inside, SigmaTwo}

RECURSIVE SeqsUpTo(_, _)
SeqsUpTo(S, n) ==
    IF n = 0 THEN {<<>>}
    ELSE LET T == SeqsUpTo(S, n - 1)
         IN  T \cup {Append(t, x) : t \in {u \in T : Len(u) = n - 1}, x \in S}

GapLists == SeqsUpTo(GapInputs, MaxGaps)

\* ------------------------------------------------------- the source term
\* src_z = np.r_[src_a_z, src_b_z]
src_a_z == -500
src_b_z == -510

\* The faces of the cylindrical mesh: hx are the radial cell widths, in
\* quarter-millimetres, nodes_z the depths of the cell edges, ascending.
RECURSIVE SeqSum(_)
SeqSum(s) == IF s = <<>> THEN 0 ELSE Head(s) + SeqSum(Tail(s))

\* outer edge and centre of the i-th radial cell
edge_r(hx, i) == SeqSum(SubSeq(hx, 1, i))
centre_r(hx, i) == edge_r(hx, i - 1) + (hx[i] \div 2)

nFz(fm) == Len(fm.hx) * Len(fm.nodes_z)
nFx(fm) == Len(fm.hx) * (Len(fm.nodes_z) - 1)

\* mesh.gridFz: the z-faces, at cell-centre radius and cell-edge depth
gridFz(fm) ==
    [k \in 1..nFz(fm) |->
        [r |-> centre_r(fm.hx, ((k - 1) % Len(fm.hx)) + 1),
         z |-> fm.nodes_z[((k - 1) \div Len(fm.hx)) + 1]]]

\* mesh.area, x-faces first, in units of pi
face_area(fm) ==
    [k \in 1..(nFx(fm) + nFz(fm)) |->
        LET kk == IF k <= nFx(fm) THEN k ELSE k - nFx(fm)
            i == ((kk - 1) % Len(fm.hx)) + 1
            j == ((kk - 1) \div Len(fm.hx)) + 1
        IN  IF k <= nFx(fm)
            THEN 2 * edge_r(fm.hx, i) * (fm.nodes_z[j + 1] - fm.nodes_z[j])
            ELSE (edge_r(fm.hx, i) * edge_r(fm.hx, i))
                    - (edge_r(fm.hx, i - 1) * edge_r(fm.hx, i - 1))]

\* variant: the bounds read as (src_a_z, src_b_z) in that order
source_inds_z_ordered(fm, sz) ==
    [k \in 1..nFz(fm) |->
        /\ gridFz(fm)[k].r < fm.hx[1]
        /\ gridFz(fm)[k].z >= sz[1]
        /\ gridFz(fm)[k].z <= sz[2]]

\* source_inds_z
source_inds_z(fm, sz) ==
    [k \in 1..nFz(fm) |->
        /\ gridFz(fm)[k].r < fm.hx[1]
        /\ gridFz(fm)[k].z >= SeqMin(sz)
        /\ gridFz(fm)[k].z <= SeqMax(sz)]

\* source_term_z = np.zeros(mesh.nFz); source_term_z[source_inds_z] = 1
make_source_term_z(fm, sz) ==
    MaskAssign([k \in 1..nFz(fm) |-> 0], source_inds_z(fm, sz), 1)

\* the quotient n / a for n in {0, 1} and an area a > 0, as a reduced fraction
Quotient(n, a) == IF n = 0 THEN <<0, 1>> ELSE <<n, a>>

\* source_term = np.hstack([np.zeros(mesh.nFx), source_term_z]) / mesh.area
make_source_term(fm, stz) ==
    LET stacked == [k \in 1..nFx(fm) |-> 0] \o stz
    IN  [k \in 1..Len(stacked) |-> Quotient(stacked[k], face_area(fm)[k])]

HxInputs == {<<10, 10, 200>>, <<4, 6>>}
NodesZInputs == {<<-512, -510, -505, -500, -498>>, <<-510, -500, 0>>}
FaceMeshes == {[hx |-> h, nodes_z |-> n] : h \in HxInputs, n \in NodesZInputs}
NotebookFaces == [hx |-> <<10, 10, 200>>, nodes_z |-> <<-512, -510, -505, -500, -498>>]

SrcDepths == {src_a_z, src_b_z, -505, -498, 0}
SrcInputs == {<<a, b>> : a \in SrcDepths, b \in SrcDepths}

\* ---------------------------------------------------------- the notebook
Init ==
    /\ pc = "params"
    /\ casing_params \in GeometryInputs
    /\ exc = "none"
    /\ mesh \in Meshes
    /\ heap = <<>>
    /\ sigma = 0
    /\ gaps = <<>>
    /\ sigma_gap = sigma_inside
    /\ sigma_gaps = 0
    /\ raised = FALSE
    /\ model_dict = <<>>
    /\ src_z = <<src_a_z, src_b_z>>
    /\ mesh_faces = NotebookFaces
    /\ source_term_z = <<>>
    /\ source_term = <<>>

\* model = casing_sim.model.CasingInHalfspace(...)
ConstructModel ==
    /\ pc = "params"
    /\ pc' = IF InvalidGeometry THEN "invalid" ELSE "mesh"
    /\ exc' = IF InvalidGeometry THEN "InvalidGeometry" ELSE exc
    /\ UNCHANGED <<mesh, heap, sigma, gaps, sigma_gap, sigma_gaps, raised,
                   model_dict, casing_params, srcvars>>

\* sigma = model.sigma(mesh)
PutModelOnMesh ==
    /\ pc = "mesh"
    /\ heap' = Append(heap, build_field(mesh))
    /\ sigma' = Len(heap) + 1
    /\ pc' = "model"
    /\ UNCHANGED <<mesh, gaps, sigma_gap, sigma_gaps, raised, model_dict,
                   casing_params, exc, srcvars>>

\* gaps = [...]; sigma_gaps = create_gaps_model(gaps)
CreateGapsModel ==
    /\ pc = "model"
    /\ \E gs \in GapLists, sg \in SigmaGapInputs :
          LET res == create_gaps_model(heap, sigma, gs, sg, mesh)
          IN  /\ gaps' = gs
              /\ sigma_gap' = sg
              /\ heap' = res.heap
              /\ raised' = res.raised
              /\ exc' = res.exc
              /\ sigma_gaps' = IF res.raised THEN sigma_gaps ELSE res.ret
              /\ pc' = IF res.raised THEN "error" ELSE "gaps"
    /\ UNCHANGED <<mesh, sigma, model_dict, casing_params, srcvars>>

\* model_dict = {"intact": sigma, "gaps": sigma_gaps}
StoreModels ==
    /\ pc = "gaps"
    /\ model_dict' = [intact |-> sigma, gaps |-> sigma_gaps]
    /\ pc' = "done"
    /\ UNCHANGED <<mesh, heap, sigma, gaps, sigma_gap, sigma_gaps, raised,
                   casing_params, exc, srcvars>>

\* source_inds_z, source_term_z, source_term
CreateSource ==
    /\ pc = "done"
    /\ source_term_z' = make_source_term_z(mesh_faces, src_z)
    /\ source_term' = make_source_term(mesh_faces, source_term_z')
    /\ pc' = "source"
    /\ UNCHANGED <<mesh, heap, sigma, gaps, sigma_gap, sigma_gaps, raised,
                   model_dict, casing_params, exc, src_z, mesh_faces>>

Next ==
    \/ ConstructModel
    \/ PutModelOnMesh
    \/ CreateGapsModel
    \/ StoreModels
    \/ CreateSource

Spec == Init /\ [][Next]_vars

\* the mesh cells (192-223) run again with other parameters while sigma
\* keeps the field of the earlier mesh
RegenerateMesh ==
    /\ pc = "model"
    /\ mesh' \in Meshes \ {mesh}
    /\ UNCHANGED <<pc, heap, sigma, gaps, sigma_gap, sigma_gaps, raised,
                   model_dict, casing_params, exc, srcvars>>

NextStale == Next \/ RegenerateMesh

SpecStale == Init /\ [][NextStale]_vars

\* the source cells alone, for any source depths and face mesh: the cells
\* before them have run with the notebook's own values
NotebookGaps == <<<<-800, -805>>>>

InitSource ==
    /\ pc = "done"
    /\ casing_params = [casing_diameter |-> casing_diameter, casing_t |-> casing_t]
    /\ exc = "none"
    /\ mesh = gridCC(<<45>>, <<-802>>)
    /\ heap = create_gaps_model(<<build_field(mesh)>>, 1, NotebookGaps,
                                sigma_inside, mesh).heap
    /\ sigma = 1
    /\ gaps = NotebookGaps
    /\ sigma_gap = sigma_inside
    /\ sigma_gaps = 2
    /\ raised = FALSE
    /\ model_dict = [intact |-> 1, gaps |-> 2]
    /\ src_z \in SrcInputs
    /\ mesh_faces \in FaceMeshes
    /\ source_term_z = <<>>
    /\ source_term = <<>>

NextSource == CreateSource

SpecSource == InitSource /\ [][NextSource]_vars

\* ------------------------------------------------- vocabulary of the claims
Built == sigma # 0
Called == pc \in {"gaps", "done", "source", "error"}
Returned == pc \in {"gaps", "done", "source"}

base_field == heap[sigma]
gaps_field == heap[sigma_gaps]

Min2(a, b) == IF a <= b THEN a ELSE b
Max2(a, b) == IF a >= b THEN a ELSE b

\* z lies in the closed interval spanned by the two depths of gap g
InGap(g, z) == Len(g) >= 2 /\ Min2(g[1], g[2]) <= z /\ z <= Max2(g[1], g[2])

Containing(z) == {i \in 1..Len(gaps) : InGap(gaps[i], z)}

SetMax(S) == CHOOSE m \in S : \A x \in S : x <= m

WellFormed == \A i \in 1..Len(gaps) : Len(gaps[i]) = 2

\* the override a gap carries: its own third entry, else the call's sigma_gap
override(g) == IF Len(g) = 3 THEN g[3] ELSE sigma_gap

\* C1 as stated: after a call, a casing-wall cell whose depth lies in two or
\* more gaps holds the override conductivity of the last gap containing it.
C1_LastGapOverrideWins ==
    (Called /\ Rectangular(gaps)) =>
        \A k \in 1..Len(mesh) :
            (ind_casing(mesh[k]) /\ Cardinality(Containing(mesh[k].z)) >= 2)
                => /\ ~raised
                   /\ gaps_field[k] = override(gaps[SetMax(Containing(mesh[k].z))])

\* C1 amended: the call has one override, sigma_gap, for all its gaps; after a
\* call with two-entry gaps every casing-wall cell whose depth lies in two or
\* more gaps holds sigma_gap, whatever the order of the gaps.
C1_OverlapGetsSigmaGap ==
    (Called /\ WellFormed) =>
        /\ ~raised
        /\ \A k \in 1..Len(mesh) :
              (ind_casing(mesh[k]) /\ Cardinality(Containing(mesh[k].z)) >= 2)
                  => gaps_field[k] = sigma_gap

C1_Witness ==
    /\ Returned
    /\ Len(gaps) = 2 /\ gaps[1] # gaps[2]
    /\ \E k \in 1..Len(mesh) :
          /\ ind_casing(mesh[k])
          /\ Containing(mesh[k].z) = {1, 2}
          /\ gaps_field[k] = sigma_gap
          /\ base_field[k] # sigma_gap

\* C2 as stated: after a call, a cell differs from the base field only if its
\* depth lies inside the interval of at least one individual gap.
C2_GapsIndependent ==
    Returned =>
        \A k \in 1..Len(mesh) :
            gaps_field[k] # base_field[k] => Containing(mesh[k].z) # {}

\* C3: a call never changes a cell classified Air, CasingInterior or
\* Background, even when its depth lies inside a gap.
C3_OnlyCasingWallChanges ==
    Returned =>
        \A k \in 1..Len(mesh) :
            region_of(mesh[k]) \in {"Air", "CasingInterior", "Background"}
                => gaps_field[k] = base_field[k]

C3_Witness ==
    /\ Returned
    /\ \E k \in 1..Len(mesh) :
          /\ region_of(mesh[k]) = "CasingInterior"
          /\ Containing(mesh[k].z) # {}
          /\ base_field[k] # sigma_gap
          /\ gaps_field[k] = base_field[k]
    /\ \E k \in 1..Len(mesh) : gaps_field[k] # base_field[k]

\* C4: a call of create_gaps_model, returning or raising, leaves sigma bound
\* to the same array and every element of that array as it was.
C4_BaseFieldUnchanged ==
    [][pc = "model" => (sigma' = sigma /\ heap'[sigma'] = heap[sigma])]_vars

C4_Witness ==
    /\ Returned
    /\ sigma_gaps # sigma
    /\ gaps_field # base_field
    /\ base_field = build_field(mesh)

\* C5: with an empty gap list the call returns a field equal to the base
\* field, element for element and in length.
C5_EmptyGapsIdentity ==
    (Called /\ gaps = <<>>) =>
        /\ ~raised
        /\ Len(gaps_field) = Len(base_field)
        /\ \A k \in 1..Len(base_field) : gaps_field[k] = base_field[k]

C5_Witness ==
    /\ Returned /\ gaps = <<>>
    /\ \E k \in 1..Len(mesh) : ind_casing(mesh[k])
    /\ gaps_field = base_field

Reversed(g) == Len(g) = 2 /\ g[1] > g[2]

\* C6 as stated: a call given a gap whose first depth is above its second
\* is rejected and produces no field.
C6_ReversedGapRejected ==
    (Called /\ \E i \in 1..Len(gaps) : Reversed(gaps[i])) => raised

\* C6 amended: a reversed pair is accepted and normalised by min/max; a call
\* with two-entry gaps returns a field, and every casing-wall cell between
\* the two depths of a reversed pair holds sigma_gap.
C6_ReversedGapNormalised ==
    (Called /\ WellFormed /\ \E i \in 1..Len(gaps) : Reversed(gaps[i])) =>
        /\ ~raised
        /\ \A k \in 1..Len(mesh) : \A i \in 1..Len(gaps) :
              (/\ ind_casing(mesh[k])
               /\ Reversed(gaps[i])
               /\ gaps[i][2] <= mesh[k].z /\ mesh[k].z <= gaps[i][1])
                  => gaps_field[k] = sigma_gap

C6_Witness ==
    /\ Returned
    /\ gaps = <<<<-800, -805>>>>
    /\ \E k \in 1..Len(mesh) :
          /\ ind_casing(mesh[k]) /\ mesh[k].z = -802
          /\ gaps_field[k] = sigma_gap
          /\ base_field[k] # sigma_gap

\* C7: every cell centre, boundary ones included, satisfies the condition
\* of exactly one region.
C7_RegionsPartition ==
    \A k \in 1..Len(mesh) :
        /\ Cardinality(regions_of(mesh[k])) = 1
        /\ regions_of(mesh[k]) = {region_of(mesh[k])}

C7_Witness ==
    /\ Built
    /\ \E k \in 1..Len(mesh) :
          /\ mesh[k].r = casing_inner_radius /\ mesh[k].z = casing_top_z
          /\ regions_of(mesh[k]) = {"CasingWall"}
    /\ \A reg \in Regions : \E k \in 1..Len(mesh) : regions_of(mesh[k]) = {reg}

InWallBand(p) ==
    /\ casing_inner_radius <= p.r /\ p.r < casing_outer_radius
    /\ casing_bottom_z <= p.z /\ p.z <= casing_top_z

\* C8: a cell with inner radius <= r < outer radius and bottom <= z <= top is
\* classified CasingWall and has conductivity sigma_casing.
C8_WallBandIsCasingWall ==
    \A k \in 1..Len(mesh) :
        InWallBand(mesh[k]) =>
            /\ region_of(mesh[k]) = "CasingWall"
            /\ conductivity(mesh[k]) = sigma_casing
            /\ (Built => base_field[k] = sigma_casing)

C8_Witness ==
    /\ Built
    /\ \E k \in 1..Len(mesh) :
          /\ mesh[k].r = casing_inner_radius /\ mesh[k].z = casing_bottom_z
          /\ region_of(mesh[k]) = "CasingWall"
          /\ base_field[k] = sigma_casing
    /\ \E k \in 1..Len(mesh) :
          /\ mesh[k].r = 45 /\ mesh[k].z = casing_top_z
          /\ region_of(mesh[k]) = "CasingWall"
    /\ \E k \in 1..Len(mesh) :
          /\ mesh[k].r = casing_outer_radius /\ mesh[k].z = -802
          /\ region_of(mesh[k]) # "CasingWall"

\* C9: a cell with z > 0 is classified Air whatever its radius.
C9_AboveSurfaceIsAir ==
    \A k \in 1..Len(mesh) :
        mesh[k].z > 0 =>
            /\ region_of(mesh[k]) = "Air"
            /\ (Built => base_field[k] = sigma_air)

C9_Witness ==
    /\ Built
    /\ \E k \in 1..Len(mesh) :
          /\ mesh[k].z > 0 /\ mesh[k].r < casing_inner_radius
          /\ base_field[k] = sigma_air
    /\ \E k \in 1..Len(mesh) :
          /\ mesh[k].z > 0 /\ InWallBand([r |-> mesh[k].r, z |-> 0])
          /\ base_field[k] = sigma_air

\* C10: the base field has one element per cell centre, element i being the
\* conductivity of centre i, and the field a call returns has that length too.
C10_FieldsAlignedWithPoints ==
    /\ Built =>
          /\ DOMAIN base_field = 1..Len(mesh)
          /\ \A i \in 1..Len(mesh) : base_field[i] = conductivity(mesh[i])
    /\ Returned =>
          /\ DOMAIN gaps_field = 1..Len(mesh)
          /\ \A i \in 1..Len(mesh) : gaps_field[i] \in {base_field[i], sigma_gap}

C10_Witness ==
    /\ Returned
    /\ Len(mesh) = Len(RadialCentres) * Len(DepthCentres)
    /\ Len(gaps_field) = Len(mesh)
    /\ gaps_field # base_field
    /\ {base_field[i] : i \in 1..Len(mesh)}
          = {sigma_air, sigma_back, sigma_casing, sigma_inside}

C12_ShapeMismatchRejected ==
    (Called /\ Len(base_field) # Len(mesh)) => (raised /\ sigma_gaps = 0)

\* C12 amended: with such a base field a call with a non-empty gap list
\* raises and returns no field (IndexError at the first masked write when
\* the gaps have two entries); with an empty gap list nothing is checked and
\* a copy of the base field is returned.
C12_MismatchCaughtAtFirstWrite ==
    (Called /\ Len(base_field) # Len(mesh)) =>
        /\ gaps # <<>> =>
              /\ raised /\ sigma_gaps = 0
              /\ exc \in {"IndexError", "Exception", "ValueError"}
              /\ WellFormed => exc = "IndexError"
        /\ gaps = <<>> =>
              /\ ~raised /\ exc = "none"
              /\ gaps_field = base_field

C12_Witness ==
    /\ pc = "error" /\ raised
    /\ exc = "IndexError"
    /\ Len(base_field) > Len(mesh)
    /\ Len(gaps) = 2 /\ WellFormed
    /\ sigma_gaps = 0

Malformed == {i \in 1..Len(gaps) : Len(gaps[i]) # 2}

\* C13: a call whose gap list has an element without exactly two entries
\* raises and returns no field, wherever that element stands in the list.
C13_MalformedGapRejected ==
    (Called /\ Malformed # {}) =>
        /\ raised /\ pc = "error"
        /\ exc # "none"
        /\ 1 \in Malformed => exc = "Exception"
        /\ sigma_gaps = 0
        /\ model_dict = <<>>

C13_Witness ==
    /\ pc = "error" /\ raised
    /\ Len(gaps) = 2
    /\ Malformed = {2}
    /\ \E k \in 1..Len(mesh) : ind_casing(mesh[k]) /\ InGap(gaps[1], mesh[k].z)
    /\ sigma_gaps = 0

\* the z-face k is one the claim selects: on the axis column and between
\* the two source depths, whichever is deeper
Selected(k) ==
    /\ gridFz(mesh_faces)[k].r < mesh_faces.hx[1]
    /\ Min2(src_z[1], src_z[2]) <= gridFz(mesh_faces)[k].z
    /\ gridFz(mesh_faces)[k].z <= Max2(src_z[1], src_z[2])

\* C14: the source term is 1 before area normalisation, and non-zero after
\* it, exactly on the z-faces with radius below the first radial cell width
\* and depth between the two source depths; it is 0 on every other z-face
\* and on every x-face, whichever source depth is the deeper.
C14_SourceOnAxisFacesBetweenDepths ==
    pc = "source" =>
        /\ Len(source_term_z) = nFz(mesh_faces)
        /\ \A k \in 1..nFz(mesh_faces) :
              source_term_z[k] = IF Selected(k) THEN 1 ELSE 0
        /\ Len(source_term) = nFx(mesh_faces) + nFz(mesh_faces)
        /\ \A k \in 1..nFx(mesh_faces) : source_term[k][1] = 0
        /\ \A k \in 1..nFz(mesh_faces) :
              (source_term[nFx(mesh_faces) + k][1] # 0) <=> Selected(k)

C14_Witness ==
    /\ pc = "source"
    /\ src_z[1] > src_z[2]
    /\ nFx(mesh_faces) > 0
    /\ \E k \in 1..nFz(mesh_faces) :
          /\ gridFz(mesh_faces)[k].z = src_z[2]
          /\ source_term_z[k] = 1
          /\ source_term[nFx(mesh_faces) + k][1] = 1
    /\ \E k \in 1..nFz(mesh_faces) :
          /\ gridFz(mesh_faces)[k].r < mesh_faces.hx[1]
          /\ gridFz(mesh_faces)[k].z > src_z[1]
          /\ source_term_z[k] = 0
    /\ \E k \in 1..nFz(mesh_faces) :
          /\ gridFz(mesh_faces)[k].r > mesh_faces.hx[1]
          /\ gridFz(mesh_faces)[k].z = src_z[1]
          /\ source_term_z[k] = 0

====
